---- MODULE Spec2Model ----
(***************************************************************************)
(* ckpool_bot.py: the watcher/cache core of the ckpool block notifier.     *)
(*                                                                         *)
(* The process is one asyncio event loop.  Every action below is the code  *)
(* a coroutine runs between two awaits (or the completion of one awaited   *)
(* network call), so actions are atomic exactly where the code is.         *)
(*                                                                         *)
(* Python values are modelled structurally:                                *)
(*   - a dict is a function whose DOMAIN is its key set; None, {} and ""   *)
(*     are all the empty function <<>> (they are all falsy in Python);     *)
(*   - a str is a sequence of one-character strings;                       *)
(*   - the decimal string str(n) is the sequence of n's digits.            *)
(* Disk writes and reads of files the program itself wrote are assumed to  *)
(* succeed; what the remote API and the startup files contain is input.    *)
(***************************************************************************)
EXTENDS Integers, Sequences, FiniteSets, TLC

\* ------------------------------------------------------------------ bounds
NumChats == 2      \* chat ids that may send /subscribe and /unsubscribe
MaxTasks == 2      \* detail-fetch tasks alive at once: the entries of one
                   \* /api/blocks answer plus the tasks left from aborted cycles

\* ------------------------------------------------------- program constants
\* int(os.getenv("MAX_PARALLEL_FETCH", "5")): the environment sets it to 1 here,
\* so that one poll can list more new identifiers than the semaphore admits.
MAX_PARALLEL_FETCH == 1
CKPOOL_ID == 49

Chats == 1..NumChats

\* The remote chain: the height the source reports for each block identifier
\* (immutable per identifier).  Blocks 1 and 2 compete for height 9, as the
\* two sides of a chain reorganisation do.
ChainHeights == <<9, 9>>
Ids == DOMAIN ChainHeights
HeightOf(id) == ChainHeights[id]

\* ------------------------------------------------------------ Python helpers
Range(f) == {f[k] : k \in DOMAIN f}

\* dict.get(k, dflt)
Get(d, k, dflt) == IF k \in DOMAIN d THEN d[k] ELSE dflt

\* a or b
Or(a, b) == IF a # <<>> THEN a ELSE b

\* d.get(k) == v, for a v that is not None
GetIs(d, k, v) == k \in DOMAIN d /\ d[k] = v

\* str(n) for a non-negative int: its decimal digits
RECURSIVE Str(_)
Str(n) == IF n < 10 THEN <<n>> ELSE Append(Str(n \div 10), n % 10)

\* list(s) for a set of ints: some enumeration of s without repetition
\* (CPython enumerates a set of small ints in ascending order)
RECURSIVE SetToList(_)
SetToList(s) ==
    IF s = {} THEN <<>>
    ELSE LET m == CHOOSE x \in s : \A y \in s : x <= y
         IN  <<m>> \o SetToList(s \ {m})

\* str.lower() on one character
LowerChar(c) ==
    CASE c = "C" -> "c"
      [] c = "K" -> "k"
      [] c = "P" -> "p"
      [] c = "O" -> "o"
      [] c = "L" -> "l"
      [] c = "S" -> "s"
      [] c = "F" -> "f"
      [] OTHER   -> c

\* mutant: the name and the slug are compared as they come
Lower_AsIs(s) == s

Lower(s) == [i \in 1..Len(s) |-> LowerChar(s[i])]

\* sub in s
Contains(sub, s) ==
    \E i \in 0..(Len(s) - Len(sub)) :
        \A j \in 1..Len(sub) : s[i + j] = sub[j]

\* ---------------------------------------------------------------- is_ckpool
FragCkpool == <<"c", "k", "p", "o", "o", "l">>
FragSoloCk == <<"s", "o", "l", "o", " ", "c", "k">>
FragSolock == <<"s", "o", "l", "o", "c", "k">>

\* detail.get("pool") or detail.get("extras", {}).get("pool") or {}
pool_info(detail) ==
    Or(Or(Get(detail, "pool", <<>>),
          Get(Get(detail, "extras", <<>>), "pool", <<>>)),
       <<>>)

is_ckpool(detail) ==
    LET pool == pool_info(detail)
        name == Lower(Or(Get(pool, "name", <<>>), <<>>))
        slug == Lower(Or(Get(pool, "slug", <<>>), <<>>))
    IN  IF pool = <<>> THEN FALSE
        ELSE IF GetIs(pool, "id", CKPOOL_ID) THEN TRUE
        ELSE \/ \E sub \in {FragCkpool, FragSoloCk, FragSolock} : Contains(sub, name)
             \/ Contains(FragSolock, slug)

\* ------------------------------------------------- what the remote returns
PoolCk == [id |-> 49, name |-> <<"S", "o", "l", "o", " ", "C", "K">>,
           slug |-> <<"s", "o", "l", "o", "c", "k">>]
PoolOther == [id |-> 111, name |-> <<"F", "2">>, slug |-> <<"f", "2">>]

\* GET /api/v1/block/{id}: the pool sits under extras; timestamp may be missing
Detail(id, pool, withTs) ==
    LET base == [id |-> id, height |-> HeightOf(id), extras |-> [pool |-> pool]]
    IN  IF withTs
        THEN [k \in {"id", "height", "extras", "timestamp"} |->
                 IF k = "timestamp" THEN 1700000000 ELSE base[k]]
        ELSE base

DetailsOf(id) ==
    {Detail(id, PoolCk, TRUE), Detail(id, PoolCk, FALSE), Detail(id, PoolOther, TRUE)}

\* The pool descriptors is_ckpool is called with on its own: any subset of the
\* keys id, name, slug (an absent key is the empty option <<>>)
NameSoloCK == <<"S", "o", "l", "o", " ", "C", "K">>
NameCKPool == <<"C", "K", "P", "o", "o", "l">>
NameSOLOCK == <<"S", "O", "L", "O", "C", "K">>
NameF2Pool == <<"F", "2", "P", "o", "o", "l">>
SlugSolock == <<"s", "o", "l", "o", "c", "k">>
SlugSoloCK == <<"S", "o", "l", "o", "C", "K">>
SlugCkpool == <<"c", "k", "p", "o", "o", "l">>
SlugF2Pool == <<"f", "2", "p", "o", "o", "l">>

Option(S) == {<<>>} \cup {<<v>> : v \in S}

PoolOf(i, n, sl) ==
    LET opt == [id |-> i, name |-> n, slug |-> sl]
    IN  [k \in {key \in {"id", "name", "slug"} : opt[key] # <<>>} |-> opt[k][1]]

PoolDescriptors ==
    {PoolOf(i, n, sl) :
        i \in Option({CKPOOL_ID, 111}),
        n \in Option({NameSoloCK, NameCKPool, NameSOLOCK, NameF2Pool}),
        sl \in Option({SlugSolock, SlugSoloCK, SlugCkpool, SlugF2Pool})}

\* a detail as far as is_ckpool reads it: "pool" absent or a descriptor
\* (possibly empty), "extras" absent or an object with "pool" absent or a
\* descriptor
ClassifyDetail(direct, extras) ==
    LET opt == [pool |-> direct, extras |-> extras]
    IN  [k \in {key \in {"pool", "extras"} : opt[key] # <<>>} |-> opt[k][1]]

ClassifyDetails ==
    {ClassifyDetail(d, e) :
        d \in Option(PoolDescriptors),
        e \in Option({<<>>} \cup {[pool |-> p] : p \in PoolDescriptors})}

\* ------------------------------------------------------------- persistence
\* A durable file: kind "missing" (no file), "undecodable" (bytes read_text
\* cannot decode), "badjson" (text json.loads rejects), or the JSON value held:
\* "chats_list" ({"chats": [..]}), "chats_scalar" ({"chats": 5}),
\* "json_other" (any other JSON value), "object" (a JSON object), "list".
File(kind, val) == [kind |-> kind, val |-> val]

\* load_state: <<raised, state["chats"]>>; a scalar is the marker "scalar"
load_state(f) ==
    CASE f.kind = "missing"      -> [raised |-> FALSE, scalar |-> FALSE, chats |-> <<>>]
      [] f.kind = "undecodable"  -> [raised |-> TRUE,  scalar |-> FALSE, chats |-> <<>>]
      [] f.kind = "badjson"      -> [raised |-> FALSE, scalar |-> FALSE, chats |-> <<>>]
      [] f.kind = "chats_list"   -> [raised |-> FALSE, scalar |-> FALSE, chats |-> f.val]
      [] f.kind = "chats_scalar" -> [raised |-> FALSE, scalar |-> TRUE,  chats |-> <<>>]
      [] OTHER                   -> [raised |-> FALSE, scalar |-> FALSE, chats |-> <<>>]

\* mutant: the file is written from the set as it was before the newest member
save_state_DropsNewest(c) ==
    File("chats_list", IF c = {} THEN <<>> ELSE Tail(SetToList(c)))

save_state(c) == File("chats_list", SetToList(c))

\* load_height_index: whatever JSON value the file holds is returned as is
load_height_index(f) ==
    CASE f.kind = "missing"     -> [raised |-> FALSE, type |-> "dict", map |-> <<>>]
      [] f.kind = "undecodable" -> [raised |-> TRUE,  type |-> "dict", map |-> <<>>]
      [] f.kind = "badjson"     -> [raised |-> FALSE, type |-> "dict", map |-> <<>>]
      [] f.kind = "object"      -> [raised |-> FALSE, type |-> "dict", map |-> f.val]
      [] OTHER                  -> [raised |-> FALSE, type |-> "list", map |-> <<>>]

save_height_index(index) == File("object", index)

\* chats = set(state["chats"]) (line 88): set(5) raises TypeError
LoadedChats(f) == Range(load_state(f).chats)

StartupRaises(sf, xf) ==
    \/ load_state(sf).raised
    \/ load_state(sf).scalar
    \/ load_height_index(xf).raised

\* ------------------------------------------------------------ watcher code
\* mutant: no diff against the index
new_ids_NoDiff(latest, index) == latest

\* new_ids = [b["id"] for b in latest if b["id"] not in known_hashes]
new_ids(latest, index) ==
    LET known_hashes == Range(index)
    IN  SelectSeq(latest, LAMBDA id : id \notin known_hashes)

\* mutant: the fetch does not go through the semaphore
CanAcquire_Unlimited(holders) == TRUE

\* asyncio.Semaphore(MAX_PARALLEL_FETCH): acquire succeeds while fewer than
\* MAX_PARALLEL_FETCH holders exist
CanAcquire(holders) == holders < MAX_PARALLEL_FETCH

\* mutant: the detail is not written to the cache
CacheWrite_Skipped(b, id, detail) == b

\* mutant: the file is written without the exists() test
CacheWrite_Overwrite(b, id, detail) == (id :> detail) @@ b

\* if not block_file.exists(): block_file.write_text(json.dumps(detail))
CacheWrite(b, id, detail) ==
    IF id \in DOMAIN b THEN b ELSE (id :> detail) @@ b

\* mutant: the index is not updated before the announcement
IndexPut_Skipped(index, height_str, id) == index

\* height_index[height_str] = block_id
IndexPut(index, height_str, id) == (height_str :> id) @@ index

\* announce_block lines 204-206 read detail["id"], ["height"], ["timestamp"]
\* before the send loop; a missing key raises KeyError out of announce_block
FormatRaises(detail) ==
    ~ ({"id", "height", "timestamp"} \subseteq DOMAIN detail)

\* -------------------------------------------------------------- cmd_block
\* int(s) for a str of decimal digits
RECURSIVE IntOf(_)
IntOf(s) ==
    IF s = <<>> THEN 0
    ELSE 10 * IntOf(SubSeq(s, 1, Len(s) - 1)) + s[Len(s)]

\* a < b for two str of digits (the order max() uses without a key)
RECURSIVE StrLess(_, _)
StrLess(a, b) ==
    IF a = <<>> THEN b # <<>>
    ELSE IF b = <<>> THEN FALSE
    ELSE IF a[1] # b[1] THEN a[1] < b[1]
    ELSE StrLess(Tail(a), Tail(b))

\* mutant: max(height_index.keys()) without key=int
latest_height_NoKey(index) ==
    CHOOSE k \in DOMAIN index : \A o \in DOMAIN index : o = k \/ StrLess(o, k)

\* latest_height = max(height_index.keys(), key=int)
latest_height(index) ==
    CHOOSE k \in DOMAIN index : \A o \in DOMAIN index : IntOf(o) <= IntOf(k)

\* context.args[0] is a str: [digits |-> d] when query.isdigit(), else the
\* block hash it names, [hash |-> id]
isdigit(query) == "digits" \in DOMAIN query

\* lines 150-171 read detail["height"] and detail["timestamp"]
ReplyRaises(detail) == ~ ({"height", "timestamp"} \subseteq DOMAIN detail)

\* lines 145-171, once block_id is determined
BlockReply(block_id, cache) ==
    IF block_id \notin DOMAIN cache
    THEN [kind |-> "no_block", id |-> block_id]
    ELSE IF ReplyRaises(cache[block_id])
    THEN [kind |-> "raised", id |-> block_id]
    ELSE [kind |-> "info", id |-> block_id, height |-> cache[block_id]["height"]]

\* cmd_block reads the index and the cache with no await in between
cmd_block(args, index, cache) ==
    IF args # <<>>
    THEN LET query == args[1]
         IN  IF isdigit(query)
             THEN IF query.digits \notin DOMAIN index
                  THEN [kind |-> "no_height"]
                  ELSE BlockReply(index[query.digits], cache)
             ELSE BlockReply(query.hash, cache)
    ELSE IF DOMAIN index = {}
         THEN [kind |-> "no_blocks"]
         ELSE BlockReply(index[latest_height(index)], cache)

\* A chain for the queries: blocks 1..4 at heights 9, 10, 100 and 9
QueryHeights == <<9, 10, 100, 9>>

\* the indexes the watcher can have built from it: some heights, each mapped
\* to a block of that height
QueryIndexes ==
    LET hs == Range(QueryHeights)
        maps(H) == {f \in [H -> DOMAIN QueryHeights] : \A h \in H : QueryHeights[f[h]] = h}
    IN  UNION {{[k \in {Str(h) : h \in H} |-> f[IntOf(k)]] : f \in maps(H)} :
               H \in SUBSET hs}

\* the cache that goes with an index: a detail for every indexed block
QueryCache(index, withTs) ==
    [id \in Range(index) |->
        IF withTs
        THEN [id |-> id, height |-> QueryHeights[id], timestamp |-> 1700000000]
        ELSE [id |-> id, height |-> QueryHeights[id]]]

QueryArgs ==
    {<<>>} \cup {<<[digits |-> Str(h)]>> : h \in Range(QueryHeights) \cup {11}}
           \cup {<<[hash |-> id]>> : id \in DOMAIN QueryHeights}

\* mutant: `for chat_id in chats`, the loop follows the set as commands change it
SnapshotAfter_Live(rest, c, added) ==
    IF added THEN Append(rest, c) ELSE SelectSeq(rest, LAMBDA x : x # c)

\* `for chat_id in list(chats)`: the loop runs over a copy, so what is left of
\* it after a command added or removed c is what was left before
SnapshotAfter(rest, c, added) == rest

\* mutant: the try/except sits around the loop, a raising send ends it
AfterSend_AbortOnRaise(rest, delivered) == IF delivered THEN Tail(rest) ELSE <<>>

\* the for loop of announce_block after one send_message returned or raised:
\* the exception is caught and logged, the loop goes on with the rest
AfterSend(rest, delivered) == Tail(rest)

\* mutant: the handler `continue`s, the sleep is skipped
AfterCycleError_NoSleep == "poll"

\* where the watcher goes when an exception reaches `except Exception` (270):
\* on to `await asyncio.sleep(CHECK_INTERVAL)` (273)
AfterCycleError == "sleep"

\* `async with sem` in limited_detail.  A task runs up to its first real
\* suspension as soon as it is scheduled, so whenever the semaphore has a free
\* slot the longest-waiting task takes it (asyncio wakes waiters in FIFO order):
\* first the tasks left over from an aborted cycle, then this cycle's tasks in
\* creation order.
RECURSIVE Admit(_, _, _)
Admit(ts, ow, of) ==
    LET holders == Cardinality({i \in DOMAIN ts : ts[i].st = "fly"}) + of
        waiting == {i \in DOMAIN ts : ts[i].st = "wait"}
    IN  IF ~ CanAcquire(holders) THEN [tasks |-> ts, orphWait |-> ow, orphFly |-> of]
        ELSE IF ow > 0 THEN Admit(ts, ow - 1, of + 1)
        ELSE IF waiting # {}
        THEN LET i == CHOOSE x \in waiting : \A y \in waiting : x <= y
             IN  Admit([ts EXCEPT ![i].st = "fly"], ow, of)
        ELSE [tasks |-> ts, orphWait |-> ow, orphFly |-> of]

VARIABLES
    proc,          \* "running" | "crashed" (module import raised)
    chats,         \* chats: Set[int]
    height_index,  \* height_index: Dict[str, str]
    index_type,    \* the Python type load_height_index returned: "dict" | "list"
    stateFile,     \* DATA_PATH
    indexFile,     \* HEIGHT_INDEX_PATH
    blocks,        \* BLOCKS_DIR/<id>.json: id -> detail
    pc,            \* the await the watcher is suspended at:
                   \*   "poll" fetch_latest_blocks, "gather" the next completed
                   \*   task, "announce" send_message, "sleep" asyncio.sleep
    tasks,         \* this cycle's limited_detail tasks, in creation order
    doneQ,         \* indexes of finished tasks as_completed has not yielded yet
    orphWait,      \* tasks of an aborted cycle still waiting for the semaphore
    orphFly,       \* tasks of an aborted cycle still holding the semaphore
    curTask,       \* index of the task whose detail announce_block is sending
    todo,          \* the part of list(chats) the for loop has not reached yet
    \* history, for the properties only
    snap,          \* list(chats) as taken when the last fan-out started
    att,           \* send attempts per recipient in the last fan-out
    failed,        \* "no" | "raised" (a send raised) | "went_on" (and a later
                   \* recipient was attempted after it) in the last fan-out
    pollResult,    \* what this cycle's poll gave: "none" (not returned yet),
                   \* "failed", "empty", "all_known", "has_new"
    cycChanged,    \* the cache or the index changed since the poll returned
    \* one call of a function on its own (the specifications of single calls)
    clsIn,         \* is_ckpool: the detail passed
    clsOut,        \* is_ckpool: "none" (not called) | "True" | "False"
    qArgs,         \* cmd_block: context.args
    qReply         \* cmd_block: what it replied, NoReply before the call

vars == <<proc, chats, height_index, index_type, stateFile, indexFile, blocks,
          pc, tasks, doneQ, orphWait, orphFly, curTask, todo,
          snap, att, failed, pollResult, cycChanged,
          clsIn, clsOut, qArgs, qReply>>

subscribers == <<chats, stateFile>>
indexVars == <<height_index, index_type, indexFile>>
fetchVars == <<tasks, doneQ, orphWait, orphFly>>
fanHist == <<snap, att, failed>>
cycleHist == <<pollResult, cycChanged>>
callVars == <<clsIn, clsOut, qArgs, qReply>>
botVars == <<proc, subscribers, indexVars, blocks, pc, fetchVars, curTask, todo,
             fanHist, cycleHist>>

NoAttempts == [c \in Chats |-> 0]

\* ------------------------------------------------------------------- startup
StateFiles ==
    {File("missing", <<>>), File("badjson", <<>>), File("undecodable", <<>>),
     File("chats_scalar", <<>>), File("chats_list", <<1>>)}

IndexFiles ==
    {File("missing", <<>>), File("badjson", <<>>), File("undecodable", <<>>),
     File("list", <<>>)}

NoReply == [kind |-> "none"]

\* no single call is being looked at
NoCall ==
    /\ clsIn = <<>>
    /\ clsOut = "none"
    /\ qArgs = <<>>
    /\ qReply = NoReply

\* lines 87-89 run at import; _post_init then starts ckpool_watcher, whose
\* first await is fetch_latest_blocks
\* the process as it is once the durable files are read and the watcher is
\* about to poll for the first time
Loaded ==
    /\ proc = IF StartupRaises(stateFile, indexFile) THEN "crashed" ELSE "running"
    /\ chats = LoadedChats(stateFile)
    /\ height_index = load_height_index(indexFile).map
    /\ index_type = load_height_index(indexFile).type
    /\ pc = "poll"
    /\ tasks = <<>>
    /\ doneQ = <<>>
    /\ orphWait = 0
    /\ orphFly = 0
    /\ curTask = 0
    /\ todo = <<>>
    /\ snap = {}
    /\ att = NoAttempts
    /\ failed = "no"
    /\ pollResult = "none"
    /\ cycChanged = FALSE

Startup ==
    /\ stateFile \in StateFiles
    /\ indexFile \in IndexFiles
    /\ blocks = <<>>
    /\ Loaded

Init == Startup /\ NoCall

\* the state a single call is looked at in: a start with no durable files
FreshStart ==
    /\ stateFile = File("missing", <<>>)
    /\ indexFile = File("missing", <<>>)
    /\ blocks = <<>>
    /\ Loaded

\* ------------------------------------------------------------------ commands
subscribe(c) ==
    /\ proc = "running"
    /\ c \notin chats
    /\ chats' = chats \cup {c}
    /\ stateFile' = save_state(chats')
    /\ todo' = SnapshotAfter(todo, c, TRUE)
    /\ UNCHANGED <<proc, callVars, indexVars, blocks, pc, fetchVars, curTask,
                   fanHist, cycleHist>>

unsubscribe(c) ==
    /\ proc = "running"
    /\ c \in chats
    /\ chats' = chats \ {c}
    /\ stateFile' = save_state(chats')
    /\ todo' = SnapshotAfter(todo, c, FALSE)
    /\ UNCHANGED <<proc, callVars, indexVars, blocks, pc, fetchVars, curTask,
                   fanHist, cycleHist>>

\* ------------------------------------------------------------------- watcher
Live(ts) == {i \in DOMAIN ts : ts[i].st \in {"wait", "fly", "done"}}
Holders == Cardinality({i \in DOMAIN tasks : tasks[i].st = "fly"}) + orphFly

\* the for loop over as_completed(tasks) goes on while a task is left to yield
LoopPc(ts) == IF Live(ts) = {} THEN "sleep" ELSE "gather"

\* The history fields of a task: cached (the identifier had a cache file when
\* the task was created), indexed (its detail was written to the index), fan
\* (announce_block's send loop: "none" not reached, "empty" run over an empty
\* list(chats), "started" sending, "done" sent to the whole list).
Announced(t) == t.fan \in {"started", "done"}
FanOutOver(t) == t.fan \in {"empty", "done"}

NewTask(id) == [id |-> id, st |-> "wait", raised |-> FALSE, res |-> <<>>,
                cached |-> id \in DOMAIN blocks, indexed |-> FALSE, fan |-> "none"]

Latests == UNION {[1..n -> Ids] : n \in 0..(MaxTasks - (orphWait + orphFly))}

ClearFanHist ==
    /\ snap' = {}
    /\ att' = NoAttempts
    /\ failed' = "no"

\* line 242 returned a list; lines 243-246 run, then the loop's first await
\* lets the new tasks start
PollOk(latest) ==
    /\ proc = "running"
    /\ pc = "poll"
    /\ cycChanged' = FALSE
    /\ doneQ' = <<>>
    /\ IF index_type # "dict"
       THEN \* height_index.values() raises AttributeError
            /\ pc' = AfterCycleError
            /\ tasks' = <<>>
            /\ pollResult' = "failed"
            /\ UNCHANGED <<orphWait, orphFly>>
       ELSE LET ids == new_ids(latest, height_index)
                created == [i \in 1..Len(ids) |-> NewTask(ids[i])]
                adm == Admit(created, orphWait, orphFly)
            IN  /\ tasks' = adm.tasks
                /\ orphWait' = adm.orphWait
                /\ orphFly' = adm.orphFly
                /\ pc' = LoopPc(tasks')
                /\ pollResult' =
                       IF latest = <<>> THEN "empty"
                       ELSE IF \A i \in DOMAIN latest :
                                   latest[i] \in Range(height_index)
                       THEN "all_known" ELSE "has_new"
    /\ UNCHANGED <<proc, callVars, subscribers, indexVars, blocks, curTask, todo, fanHist>>

\* line 242 raised (timeout, connection error, non-2xx status)
PollFail ==
    /\ proc = "running"
    /\ pc = "poll"
    /\ pc' = AfterCycleError
    /\ tasks' = <<>>
    /\ doneQ' = <<>>
    /\ cycChanged' = FALSE
    /\ pollResult' = "failed"
    /\ UNCHANGED <<proc, callVars, subscribers, indexVars, blocks, orphWait, orphFly,
                   curTask, todo, fanHist>>

\* a fetch finished and released the semaphore: the next waiter is admitted
Released(ts) ==
    LET adm == Admit(ts, orphWait, orphFly)
    IN  /\ tasks' = adm.tasks
        /\ orphWait' = adm.orphWait
        /\ orphFly' = adm.orphFly

\* fetch_block_detail returned a detail
FetchOk(i, detail) ==
    /\ tasks[i].st = "fly"
    /\ Released([tasks EXCEPT ![i].st = "done", ![i].res = detail])
    /\ doneQ' = Append(doneQ, i)
    /\ UNCHANGED <<proc, callVars, subscribers, indexVars, blocks, pc, curTask, todo,
                   fanHist, cycleHist>>

\* fetch_block_detail raised
FetchFail(i) ==
    /\ tasks[i].st = "fly"
    /\ Released([tasks EXCEPT ![i].st = "done", ![i].raised = TRUE])
    /\ doneQ' = Append(doneQ, i)
    /\ UNCHANGED <<proc, callVars, subscribers, indexVars, blocks, pc, curTask, todo,
                   fanHist, cycleHist>>

\* a task of an aborted cycle finishes; nobody awaits its result
OrphanDone ==
    /\ orphFly > 0
    /\ LET adm == Admit(tasks, orphWait, orphFly - 1)
       IN  /\ tasks' = adm.tasks
           /\ orphWait' = adm.orphWait
           /\ orphFly' = adm.orphFly
    /\ UNCHANGED <<proc, callVars, subscribers, indexVars, blocks, pc, doneQ, curTask, todo,
                   fanHist, cycleHist>>

\* an exception leaves the for loop: the tasks not yet yielded keep running,
\* their results are never awaited
Abandon(ts) ==
    [i \in DOMAIN ts |-> IF i \in Live(ts) THEN [ts[i] EXCEPT !.st = "lost"] ELSE ts[i]]

\* `detail = await coro` raised: logged, continue (lines 250-252)
ReconcileFailed ==
    /\ pc = "gather"
    /\ doneQ # <<>>
    /\ tasks[Head(doneQ)].raised
    /\ tasks' = [tasks EXCEPT ![Head(doneQ)].st = "taken"]
    /\ doneQ' = Tail(doneQ)
    /\ pc' = LoopPc(tasks')
    /\ ClearFanHist
    /\ UNCHANGED <<proc, callVars, subscribers, indexVars, blocks, orphWait, orphFly,
                   curTask, todo, cycleHist>>

\* `detail = await coro` returned: lines 254-268 up to the first send_message
Reconcile ==
    /\ pc = "gather"
    /\ doneQ # <<>>
    /\ ~ tasks[Head(doneQ)].raised
    /\ LET i == Head(doneQ)
           detail == tasks[i].res
           block_id == detail["id"]
           height_str == Str(detail["height"])
           taken == [tasks EXCEPT ![i].st = "taken", ![i].indexed = TRUE]
       IN  /\ blocks' = CacheWrite(blocks, block_id, detail)
           /\ height_index' = IndexPut(height_index, height_str, block_id)
           /\ indexFile' = save_height_index(height_index')
           /\ cycChanged' = (cycChanged \/ blocks' # blocks
                                        \/ height_index' # height_index
                                        \/ indexFile' # indexFile)
           /\ IF ~ is_ckpool(detail)
              THEN /\ tasks' = taken
                   /\ doneQ' = Tail(doneQ)
                   /\ pc' = LoopPc(tasks')
                   /\ ClearFanHist
                   /\ UNCHANGED <<orphWait, orphFly, curTask, todo>>
              ELSE IF FormatRaises(detail)
              THEN \* KeyError leaves announce_block and the for loop
                   /\ tasks' = Abandon(taken)
                   /\ doneQ' = <<>>
                   /\ orphWait' = orphWait
                          + Cardinality({j \in DOMAIN taken : taken[j].st = "wait"})
                   /\ orphFly' = orphFly
                          + Cardinality({j \in DOMAIN taken : taken[j].st = "fly"})
                   /\ pc' = AfterCycleError
                   /\ ClearFanHist
                   /\ UNCHANGED <<curTask, todo>>
              ELSE \* for chat_id in list(chats)
                   /\ snap' = chats
                   /\ att' = NoAttempts
                   /\ failed' = "no"
                   /\ doneQ' = Tail(doneQ)
                   /\ UNCHANGED <<orphWait, orphFly>>
                   /\ IF chats = {}
                      THEN /\ tasks' = [taken EXCEPT ![i].fan = "empty"]
                           /\ pc' = LoopPc(tasks')
                           /\ UNCHANGED <<curTask, todo>>
                      ELSE /\ tasks' = [taken EXCEPT ![i].fan = "started"]
                           /\ pc' = "announce"
                           /\ curTask' = i
                           /\ todo' = SetToList(chats)
    /\ UNCHANGED <<proc, callVars, subscribers, index_type, pollResult>>

\* one send_message returned (delivered) or raised (caught, logged)
Send(delivered) ==
    /\ pc = "announce"
    /\ att' = [att EXCEPT ![Head(todo)] = @ + 1]
    /\ failed' = IF failed # "no" THEN "went_on"
                 ELSE IF delivered THEN "no" ELSE "raised"
    /\ todo' = AfterSend(todo, delivered)
    /\ IF todo' = <<>>
       THEN /\ tasks' = [tasks EXCEPT ![curTask].fan = "done"]
            /\ pc' = LoopPc(tasks')
            /\ curTask' = 0
       ELSE /\ UNCHANGED <<tasks, curTask>>
            /\ pc' = "announce"
    /\ UNCHANGED <<proc, callVars, subscribers, indexVars, blocks, doneQ, orphWait, orphFly,
                   snap, cycleHist>>

\* await asyncio.sleep(CHECK_INTERVAL) returned: the next cycle starts
Sleep ==
    /\ pc = "sleep"
    /\ pc' = "poll"
    /\ tasks' = <<>>
    /\ doneQ' = <<>>
    /\ ClearFanHist
    /\ pollResult' = "none"
    /\ cycChanged' = FALSE
    /\ UNCHANGED <<proc, callVars, subscribers, indexVars, blocks, orphWait, orphFly,
                   curTask, todo>>

Watcher ==
    \/ \E latest \in Latests : PollOk(latest)
    \/ PollFail
    \/ ReconcileFailed
    \/ Reconcile
    \/ \E delivered \in BOOLEAN : Send(delivered)
    \/ Sleep

Network ==
    \/ \E i \in DOMAIN tasks : \E d \in DetailsOf(tasks[i].id) : FetchOk(i, d)
    \/ \E i \in DOMAIN tasks : FetchFail(i)
    \/ OrphanDone

Commands ==
    \/ \E c \in Chats : subscribe(c)
    \/ \E c \in Chats : unsubscribe(c)

Next == Watcher \/ Network \/ Commands

Spec == Init /\ [][Next]_vars
\* The event loop runs every ready coroutine, every network call ends (each
\* has a timeout), and the sleep returns: the watcher's and the network's steps
\* are weakly fair.  Commands arrive or not.
FairSpec == Spec /\ WF_vars(Watcher) /\ WF_vars(Network)

\* ------------------------------------------------------ is_ckpool on its own
ClassifyInit ==
    /\ FreshStart
    /\ clsIn \in ClassifyDetails
    /\ clsOut = "none"
    /\ qArgs = <<>>
    /\ qReply = NoReply

Classify ==
    /\ clsOut = "none"
    /\ clsOut' = IF is_ckpool(clsIn) THEN "True" ELSE "False"
    /\ UNCHANGED <<botVars, clsIn, qArgs, qReply>>

ClassifySpec == ClassifyInit /\ [][Classify]_vars

\* ------------------------------------------------------ cmd_block on its own
QueryInit ==
    /\ stateFile = File("missing", <<>>)
    /\ \E index \in QueryIndexes :
          /\ indexFile = save_height_index(index)
          /\ \E withTs \in BOOLEAN : blocks = QueryCache(index, withTs)
    /\ Loaded
    /\ clsIn = <<>>
    /\ clsOut = "none"
    /\ qArgs \in QueryArgs
    /\ qReply = NoReply

Query ==
    /\ qReply = NoReply
    /\ qReply' = cmd_block(qArgs, height_index, blocks)
    /\ UNCHANGED <<botVars, clsIn, clsOut, qArgs>>

QuerySpec == QueryInit /\ [][Query]_vars

\* ===================================================================== claims
TaskIds(ts) == {ts[i].id : i \in DOMAIN ts}

\* C1: an identifier whose detail was already in the cache when listRecent()
\* returned it is not processed and announced again.  (The cached detail is
\* the one of its first processing, see C8; when the classifier accepts it and
\* it can be formatted, that processing handed it to the fan-out.)
C1_NotAnnouncedAgain ==
    \A i \in DOMAIN tasks :
        ~ ( /\ tasks[i].cached
            /\ is_ckpool(blocks[tasks[i].id])
            /\ ~ FormatRaises(blocks[tasks[i].id])
            /\ tasks[i].indexed
            /\ Announced(tasks[i]) )

\* C2: at the end of a cycle with N distinct new identifiers of which exactly
\* one fetch failed, every other identifier is in the cache, was written to the
\* index and, if pool-owned, was announced in this cycle; the failed one is in
\* neither the cache nor the index's value set.
C2_OneFetchFailureIsolated ==
    LET F == {i \in DOMAIN tasks : tasks[i].raised}
    IN  ( /\ pc = "sleep"
          /\ pollResult = "has_new"
          /\ Cardinality(TaskIds(tasks)) = Len(tasks)
          /\ Cardinality(F) = 1 )
        => /\ \A i \in DOMAIN tasks \ F :
                 /\ tasks[i].id \in DOMAIN blocks
                 /\ tasks[i].indexed
                 /\ is_ckpool(tasks[i].res) => FanOutOver(tasks[i])
           /\ \A i \in F :
                 /\ tasks[i].id \notin DOMAIN blocks
                 /\ tasks[i].id \notin Range(height_index)

\* C3: in one fan-out every recipient of the subscriber set as it was when the
\* fan-out started gets exactly one send attempt, whichever sends raise; nobody
\* else gets one.
C3_EveryRecipientOnce ==
    /\ \A c \in Chats : att[c] <= 1
    /\ \A c \in Chats : att[c] = 1 => c \in snap
    /\ pc = "announce" =>
           \A c \in snap : att[c] = 0 <=> c \in Range(todo)
    /\ pc # "announce" => \A c \in snap : att[c] = 1

C3_Witness ==
    /\ pc # "announce"
    /\ failed = "went_on"
    /\ Cardinality(snap) >= 2
    /\ \A c \in snap : att[c] = 1

\* C4: at the end of a cycle every identifier that was written to the index in
\* it with a detail the classifier accepts has had its fan-out run to the end.
C4_IndexedPoolBlockAnnounced ==
    pc = "sleep" =>
        \A i \in DOMAIN tasks :
            (tasks[i].indexed /\ is_ckpool(tasks[i].res)) => FanOutOver(tasks[i])

\* C5: a cycle whose poll returned only identifiers of the index's value set
\* (or nothing) creates no fetch task, starts no fan-out, changes neither the
\* cache nor the index, and goes straight to the sleep.
C5_KnownOnlyCycleIsNoOp ==
    pollResult \in {"empty", "all_known"} =>
        /\ tasks = <<>>
        /\ ~ cycChanged
        /\ snap = {} /\ att = NoAttempts
        /\ pc = "sleep"

C5_Witness ==
    /\ pollResult = "all_known"
    /\ pc = "sleep"
    /\ height_index # <<>>

\* C6: the watcher polls again and again whatever fails, and every poll is
\* entered from the sleep, never straight from an error.
C6_LoopNeverStops ==
    /\ []<>(proc = "running" => pc = "poll")
    /\ [][pc' = "poll" => pc \in {"poll", "sleep"}]_vars

C6_Witness ==
    /\ pc = "sleep"
    /\ \E i \in DOMAIN tasks : tasks[i].st = "lost"

\* C7: the detail fetches holding the semaphore never exceed MAX_PARALLEL_FETCH.
C7_InFlightBounded == Holders <= MAX_PARALLEL_FETCH

C7_Witness ==
    /\ Holders = MAX_PARALLEL_FETCH
    /\ \E i \in DOMAIN tasks : tasks[i].st = "wait"

\* C8: a cache entry, once stored, is never changed and never deleted.
C8_CacheWriteOnce ==
    [][\A id \in DOMAIN blocks : id \in DOMAIN blocks' /\ blocks'[id] = blocks[id]]_vars

\* an identifier was reconciled with a detail other than the one stored
C8_Witness ==
    \E i \in DOMAIN tasks :
        /\ tasks[i].indexed
        /\ tasks[i].id \in DOMAIN blocks
        /\ blocks[tasks[i].id] # tasks[i].res

\* C9: whatever the durable files hold at startup, loading does not raise and
\* yields a set and a mapping the watcher can work with.
C9_LoadNeverFails == proc = "running" /\ index_type = "dict"

\* C10: between operations the durable files reload to the values in memory.
C10_DurableEqualsMemory ==
    proc = "running" =>
        /\ LoadedChats(stateFile) = chats
        /\ load_height_index(indexFile).map = height_index
        /\ load_height_index(indexFile).type = index_type

C10_Witness ==
    /\ proc = "running"
    /\ Cardinality(chats) >= 2
    /\ stateFile.kind = "chats_list"
    /\ height_index # <<>>
    /\ indexFile.kind = "object"

\* C11: the descriptor is_ckpool looks at is the direct one when it is not
\* empty and the one under extras otherwise; the answer is True exactly when
\* that descriptor is not empty and its id is CKPOOL_ID (whatever the name and
\* the slug), or its name holds "ckpool", "solo ck" or "solock" in any case, or
\* its slug holds "solock" in any case; with no descriptor it is False.
C11_DirectPool == IF "pool" \in DOMAIN clsIn THEN clsIn["pool"] ELSE <<>>
C11_NestedPool ==
    IF "extras" \in DOMAIN clsIn /\ "pool" \in DOMAIN clsIn["extras"]
    THEN clsIn["extras"]["pool"] ELSE <<>>
C11_UsedPool == IF DOMAIN C11_DirectPool # {} THEN C11_DirectPool ELSE C11_NestedPool
C11_IdHit == "id" \in DOMAIN C11_UsedPool /\ C11_UsedPool["id"] = 49
C11_NameHit ==
    /\ "name" \in DOMAIN C11_UsedPool
    /\ C11_UsedPool["name"] \in {NameSoloCK, NameCKPool, NameSOLOCK}
C11_SlugHit ==
    /\ "slug" \in DOMAIN C11_UsedPool
    /\ C11_UsedPool["slug"] \in {SlugSolock, SlugSoloCK}

C11_ClassifierContract ==
    clsOut # "none" =>
        /\ C11_IdHit => clsOut = "True"
        /\ (C11_NameHit \/ C11_SlugHit) => clsOut = "True"
        /\ DOMAIN C11_UsedPool = {} => clsOut = "False"
        /\ clsOut = "True" <=> (C11_IdHit \/ C11_NameHit \/ C11_SlugHit)

\* accepted by the name alone, through the descriptor under extras
C11_Witness ==
    /\ clsOut = "True"
    /\ DOMAIN C11_DirectPool = {}
    /\ ~ C11_IdHit /\ ~ C11_SlugHit
    /\ "id" \in DOMAIN C11_UsedPool
    /\ C11_UsedPool["name"] = NameSoloCK

\* C12: /block with no argument selects the identifier stored under the
\* numerically greatest height of the index and says there are no blocks when
\* the index is empty; /block <height> selects the identifier the index maps
\* that height to.
C12_IndexedHeights == {h \in Range(QueryHeights) : Str(h) \in DOMAIN height_index}
C12_Greatest == CHOOSE h \in C12_IndexedHeights : \A o \in C12_IndexedHeights : o <= h

C12_QuerySelects ==
    qReply # NoReply =>
        /\ (qArgs = <<>> /\ C12_IndexedHeights = {}) => qReply.kind = "no_blocks"
        /\ (qArgs = <<>> /\ C12_IndexedHeights # {}) =>
               /\ qReply.kind \in {"info", "raised", "no_block"}
               /\ qReply.id = height_index[Str(C12_Greatest)]
        /\ \A h \in C12_IndexedHeights :
               qArgs = <<[digits |-> Str(h)]>> =>
                   /\ qReply.kind \in {"info", "raised", "no_block"}
                   /\ qReply.id = height_index[Str(h)]

\* the greatest height is 100 while "9" is the greatest key as a string
C12_Witness ==
    /\ qArgs = <<>>
    /\ qReply.kind = "info"
    /\ qReply.height = 100
    /\ {9, 10, 100} \subseteq C12_IndexedHeights

\* C13: at the end of a cycle every identifier whose fetch succeeded in it and
\* whose own reconciliation cannot fail is in the cache, was written to the
\* index and, if the classifier accepts it, has had its fan-out, whatever
\* happened while another identifier was reconciled.
C13_ReconcileFailureIsolated ==
    (pc = "sleep" /\ Cardinality(TaskIds(tasks)) = Len(tasks)) =>
        \A i \in DOMAIN tasks :
            (tasks[i].res # <<>> /\ ~ FormatRaises(tasks[i].res)) =>
                /\ tasks[i].id \in DOMAIN blocks
                /\ tasks[i].indexed
                /\ is_ckpool(tasks[i].res) => FanOutOver(tasks[i])

\* C14: when the watcher is about to poll, no fetch task of an earlier cycle
\* is holding or waiting for the semaphore, and no fetched detail is waiting.
C14_NoCycleOverlap ==
    pc = "poll" => (orphFly + orphWait = 0 /\ tasks = <<>> /\ doneQ = <<>>)

\* C15: an identifier that was reconciled (cached and written to the index) in
\* an earlier cycle is never computed as new again.
C15_ProcessedAtMostOnce == \A i \in DOMAIN tasks : ~ tasks[i].cached

\* C16: in one cycle no identifier is fetched and reconciled by two tasks.
C16_NewIdsFormASet ==
    \A i, j \in DOMAIN tasks :
        (i # j /\ tasks[i].id = tasks[j].id) => ~ (tasks[i].indexed /\ tasks[j].indexed)

\* C17: a notification is sent only for a detail the classifier accepted, and
\* only when the cache holds the identifier and the height index, in memory
\* and on disk, maps the detail's height to it.
C17_NotifyAfterCacheAndIndex ==
    pc = "announce" =>
        LET t == tasks[curTask]
            height_str == Str(t.res["height"])
        IN  /\ is_ckpool(t.res)
            /\ t.id \in DOMAIN blocks
            /\ GetIs(height_index, height_str, t.id)
            /\ GetIs(load_height_index(indexFile).map, height_str, t.id)

\* a send was made for the second identifier reconciled in the cycle
C17_Witness ==
    /\ pc = "announce"
    /\ \E c \in Chats : att[c] = 1
    /\ \E i \in DOMAIN tasks : i # curTask /\ tasks[i].indexed

\* C18: an identifier whose fetch failed once and whose fetch succeeds again
\* and again in later cycles is eventually in the cache and written to the
\* index, with its fan-out run if the classifier accepts the detail fetched.
C18_FetchFailed(id) ==
    \E i \in DOMAIN tasks : tasks[i].id = id /\ tasks[i].raised

C18_FetchedOk(id) ==
    \E i \in DOMAIN tasks :
        tasks[i].id = id /\ tasks[i].st = "done" /\ ~ tasks[i].raised

C18_Settled(id) ==
    \E i \in DOMAIN tasks :
        /\ tasks[i].id = id
        /\ tasks[i].indexed
        /\ id \in DOMAIN blocks
        /\ is_ckpool(tasks[i].res) => FanOutOver(tasks[i])

C18_FailedFetchRetried ==
    \A id \in Ids :
        (<>C18_FetchFailed(id) /\ []<>C18_FetchedOk(id)) => <>C18_Settled(id)

\* C19: every identifier the index holds has a cache entry, so /block for an
\* indexed height, and /block with no argument on a non-empty index, do not
\* answer that the block is not cached, in any state a handler can run in.
C19_IndexedIsCached ==
    /\ Range(height_index) \subseteq DOMAIN blocks
    /\ \A k \in DOMAIN height_index :
           cmd_block(<<[digits |-> k]>>, height_index, blocks).kind \in {"info", "raised"}
    /\ DOMAIN height_index # {} =>
           cmd_block(<<>>, height_index, blocks).kind \in {"info", "raised"}

\* the index is read while the watcher is suspended in a send
C19_Witness ==
    /\ pc = "announce"
    /\ cmd_block(<<>>, height_index, blocks).kind = "info"
    /\ cmd_block(<<[digits |-> <<9>>]>>, height_index, blocks).id = tasks[curTask].id

\* C20: the recipients of a fan-out are the members of the set when it
\* started; a /subscribe or /unsubscribe that runs during a fan-out leaves the
\* fan-out where it was and is itself applied in memory and on disk.
C20_Attempted == {c \in Chats : att[c] >= 1}

C20_FanOutOnSnapshot ==
    /\ [](pc = "announce" => (todo # <<>> /\ C20_Attempted \cup Range(todo) = snap))
    /\ [](pc # "announce" => C20_Attempted = snap)
    /\ [][(pc = "announce" /\ chats' # chats) =>
            /\ pc' = "announce"
            /\ todo' = todo /\ snap' = snap /\ att' = att
            /\ curTask' = curTask
            /\ LoadedChats(stateFile') = chats']_vars

\* a fan-out ran to its end although one of its recipients unsubscribed and
\* somebody else subscribed while it was under way
C20_Witness ==
    /\ pc # "announce"
    /\ \E i \in DOMAIN tasks : tasks[i].fan = "done"
    /\ \E c \in snap : c \notin chats /\ att[c] = 1
    /\ \E c \in chats : c \notin snap /\ att[c] = 0
====
